---- MODULE Spec2Model ----
(***************************************************************************)
(* A model of the day-length calculator:                                   *)
(*   src/dst_calc.py             the US daylight-saving predicate          *)
(*   src/length_of_day_plot.py   the single-band daylight wheel (script)   *)
(*   src/length_of_day_app_qt.py the Qt application with the multi-band    *)
(*                               wheel, its dialogs and its menu handlers  *)
(*                                                                         *)
(* Angles.  The code measures angles in radians as floats; the model       *)
(* measures them in units of 2*pi/1440, so that the full circle            *)
(* (full_circle = 2 * np.pi) is FullCircle = 1440 and the angle of a time  *)
(* of day is its minute of the day.  A model angle a stands for the float  *)
(* a * 2*pi / 1440.                                                        *)
(*                                                                         *)
(* Five specifications share the variables:                                *)
(*   Spec          the Qt application as a state machine                   *)
(*   SpecGeometry  the bar-building code of _create_plot and update_plot   *)
(*                 applied to bounded sets of event times                  *)
(*   SpecAngle     time_to_angle on every datetime.time (hour, minute)     *)
(*   SpecAngleDomain  time_to_angle on values with an hour or a minute     *)
(*                 that no datetime.time can hold                          *)
(*   SpecDst       dst_in_effect on every valid date of a range of years   *)
(***************************************************************************)
EXTENDS Integers, Sequences, FiniteSets, TLC

VARIABLES
    \* DayLengthCalculator (src/length_of_day_app_qt.py)
    target_date,   \* self.target_date: None or the selected date
    location,      \* self.location with self.latitude/longitude/tz_str/tz
    sun_info,      \* self.sun_info: not set yet, or the last successful sun() result
    figure,        \* the bars on self.figure, in drawing order
    raised,        \* how the last menu handler ended: a message box or an exception
    dialog,        \* the modal LocationDialog: closed, open, or accepted with its fields
    last_values,   \* LocationDialog.last_latitude/longitude/location_name/tz_str
    last_render,   \* ghost: the last update_plot that reached sun(): its input, its queries, its result
    first_render,  \* ghost: the same record of the first update_plot that reached sun()
    \* a call of a module-level function (dst_calc.py, length_of_day_plot.py, time_to_angle)
    args,          \* the arguments of the call
    returned       \* NoCall, or [fn |-> the function called, val |-> what it returned]

vars == << target_date, location, sun_info, figure, raised, dialog, last_values,
           last_render, first_render, args, returned >>

appVars == << target_date, location, sun_info, figure, raised, dialog, last_values,
              last_render, first_render >>

-----------------------------------------------------------------------------
(* Values shared by the specifications *)

\* Python's None, or an attribute not set yet, is the empty sequence; a value v
\* that is set is << v >>
None == << >>

Some(v) == << v >>

NoCall == [fn |-> "none"]

\* full_circle = 2 * np.pi, in model units
FullCircle == 1440

HoursPerDay == 24

MinutesPerHour == 60

MinutesPerDay == HoursPerDay * MinutesPerHour

\* Python values carry their type.  A datetime.time is the record of its
\* attributes: the code reads only its hour and minute (seconds are dropped)
Time(h, m) == [type |-> "time", hour |-> h, minute |-> m]

\* a dict: its items are a function from the keys to the values; the keys are
\* no attributes of the dict
Dict(items) == [type |-> "dict", items |-> items]

\* an int
PyInt(n) == [type |-> "int", value |-> n]

\* type(value).__name__; None is the one value without a type field
TypeOf(value) == IF DOMAIN value = {} THEN "NoneType" ELSE value.type

\* the outcome of a call that ends in AttributeError
AttributeError == [type |-> "AttributeError"]

\* every value of datetime.time, to the minute
TimeOfDay == { Time(h, m) : h \in 0 .. (HoursPerDay - 1), m \in 0 .. (MinutesPerHour - 1) }

\* the time of day that is n minutes after midnight, n wrapping at 24 hours
MinuteOfDay(n) == Time((n % MinutesPerDay) \div MinutesPerHour, (n % MinutesPerDay) % MinutesPerHour)

\* A datetime of sun() is modelled by its minutes since 00:00 of the target date
\* in the target timezone (negative the evening before, 1440 and more the day
\* after); datetime.time() drops the date
time_of(dt) == MinuteOfDay(dt)

\* the datetime of the target date at time of day t
DatetimeAt(t) == t.hour * MinutesPerHour + t.minute

\* a mutant of PyMod: the remainder of C's fmod, with the sign of the dividend
PyMod_sign_of_dividend(x, m) == IF x >= 0 THEN x % m ELSE 0 - ((0 - x) % m)

\* Python's float % with a positive divisor: the result has the divisor's sign
PyMod(x, m) == x % m

-----------------------------------------------------------------------------
(* time_to_angle *)

\* isinstance(value, dict)
isinstance_dict(value) == TypeOf(value) = "dict"

\* value.hour and value.minute exist
has_hour_minute(value) == {"hour", "minute"} \subseteq DOMAIN value

\* the evaluation of time_to_angle(value) ends in AttributeError: value, or a
\* value inside the dict, has no hour or minute attribute
RECURSIVE time_to_angle_raises(_)
time_to_angle_raises(value) ==
    IF isinstance_dict(value)
    THEN \E k \in DOMAIN value.items : time_to_angle_raises(value.items[k])
    ELSE ~has_hour_minute(value)

\* a mutant of time_to_angle: the angle is brought into [0, full circle)
RECURSIVE time_to_angle_wrapped(_)
time_to_angle_wrapped(value) ==
    IF time_to_angle_raises(value)
    THEN AttributeError
    ELSE IF isinstance_dict(value)
    THEN Dict([k \in DOMAIN value.items |-> time_to_angle_wrapped(value.items[k])])
    ELSE PyMod(((value.hour * MinutesPerHour + value.minute) * FullCircle)
                   \div (HoursPerDay * MinutesPerHour), FullCircle)

\* a mutant of time_to_angle: the minute is dropped
RECURSIVE time_to_angle_hour_only(_)
time_to_angle_hour_only(value) ==
    IF time_to_angle_raises(value)
    THEN AttributeError
    ELSE IF isinstance_dict(value)
    THEN Dict([k \in DOMAIN value.items |-> time_to_angle_hour_only(value.items[k])])
    ELSE (value.hour * MinutesPerHour * FullCircle) \div (HoursPerDay * MinutesPerHour)

\* src/length_of_day_app_qt.py: a dict is converted value by value, nested dicts
\* too; anything else is (value.hour + value.minute / 60) / 24 * 2 * np.pi, and
\* AttributeError when it has no such attributes (the exception of an inner
\* call ends the outer ones)
RECURSIVE time_to_angle(_)
time_to_angle(value) ==
    IF time_to_angle_raises(value)
    THEN AttributeError
    ELSE IF isinstance_dict(value)
    THEN Dict([k \in DOMAIN value.items |-> time_to_angle(value.items[k])])
    ELSE ((value.hour * MinutesPerHour + value.minute) * FullCircle) \div (HoursPerDay * MinutesPerHour)

\* a mutant of plot_time_to_angle: the minute is dropped
plot_time_to_angle_hour_only(time) ==
    IF ~has_hour_minute(time)
    THEN AttributeError
    ELSE (time.hour * MinutesPerHour * FullCircle) \div (HoursPerDay * MinutesPerHour)

\* src/length_of_day_plot.py: (time.hour + time.minute / 60) / 24 * 2 * np.pi,
\* with no branch for a dict
plot_time_to_angle(time) ==
    IF ~has_hour_minute(time)
    THEN AttributeError
    ELSE ((time.hour * MinutesPerHour + time.minute) * FullCircle) \div (HoursPerDay * MinutesPerHour)

-----------------------------------------------------------------------------
(* dst_calc.py.  A datetime at 00:00 is modelled by its proleptic Gregorian  *)
(* ordinal (datetime.toordinal): 0001-01-01 is day 1, a Monday.              *)

IsLeap(year) == (year % 4 = 0) /\ ((year % 100 # 0) \/ (year % 400 = 0))

DaysInMonth(year, month) ==
    CASE month \in {1, 3, 5, 7, 8, 10, 12} -> 31
      [] month \in {4, 6, 9, 11} -> 30
      [] OTHER -> IF IsLeap(year) THEN 29 ELSE 28

RECURSIVE DaysBeforeMonth(_, _)
DaysBeforeMonth(year, month) ==
    IF month = 1 THEN 0 ELSE DaysBeforeMonth(year, month - 1) + DaysInMonth(year, month - 1)

DaysBeforeYear(year) ==
    (year - 1) * 365 + ((year - 1) \div 4) - ((year - 1) \div 100) + ((year - 1) \div 400)

\* datetime(year, month, day), as its ordinal
datetime(year, month, day) == DaysBeforeYear(year) + DaysBeforeMonth(year, month) + day

\* datetime.weekday(): Monday is 0, Sunday is 6
weekday(ordinal) == (ordinal + 6) % 7

\* first_day + timedelta(days=(6 - first_day.weekday()) % 7)
_first_sunday(year, month) ==
    LET first_day == datetime(year, month, 1)
    IN  first_day + PyMod(6 - weekday(first_day), 7)

\* a mutant of _second_sunday: the week is not added
_second_sunday_no_week(year, month) ==
    LET first_day == datetime(year, month, 1)
    IN  first_day + PyMod(6 - weekday(first_day), 7)

\* first_sunday + timedelta(weeks=1)
_second_sunday(year, month) ==
    LET first_day == datetime(year, month, 1)
        first_sunday == first_day + PyMod(6 - weekday(first_day), 7)
    IN  first_sunday + 7

\* dst_start <= current_date < dst_end
dst_in_effect(year, month, day) ==
    LET dst_start == _second_sunday(year, 3)
        dst_end == _first_sunday(year, 11)
        current_date == datetime(year, month, day)
    IN  (dst_start <= current_date) /\ (current_date < dst_end)

-----------------------------------------------------------------------------
(* The bars of the two daylight wheels.  ax.bar(start, 1, width=w, color=c,  *)
(* align='edge') draws the sector that starts at angle start and spans w     *)
(* clockwise (theta direction -1, midnight at the top).                      *)

Bar(start, width, color) == [start |-> start, width |-> width, color |-> color]

\* a mutant of _create_plot: the night width is a plain subtraction
_create_plot_plain_night(times) ==
    LET angles == [k \in DOMAIN times |-> plot_time_to_angle(times[k])]
    IN  << Bar(angles["last_light"], angles["first_light"] - angles["last_light"], "darkblue"),
           Bar(angles["first_light"], PyMod(angles["sunrise"] - angles["first_light"], FullCircle), "midnightblue"),
           Bar(angles["sunset"], PyMod(angles["last_light"] - angles["sunset"], FullCircle), "midnightblue"),
           Bar(angles["sunrise"], PyMod(angles["sunset"] - angles["sunrise"], FullCircle), "gold") >>

\* a mutant of _create_plot: the bars are drawn going round the cycle
_create_plot_round_the_cycle(times) ==
    LET angles == [k \in DOMAIN times |-> plot_time_to_angle(times[k])]
    IN  << Bar(angles["last_light"], PyMod(angles["first_light"] - angles["last_light"], FullCircle), "darkblue"),
           Bar(angles["first_light"], PyMod(angles["sunrise"] - angles["first_light"], FullCircle), "midnightblue"),
           Bar(angles["sunrise"], PyMod(angles["sunset"] - angles["sunrise"], FullCircle), "gold"),
           Bar(angles["sunset"], PyMod(angles["last_light"] - angles["sunset"], FullCircle), "midnightblue") >>

\* a mutant of _create_plot: the night is what the other three bars leave of the circle
_create_plot_night_is_the_rest(times) ==
    LET angles == [k \in DOMAIN times |-> plot_time_to_angle(times[k])]
        twilight_width1 == PyMod(angles["sunrise"] - angles["first_light"], FullCircle)
        twilight_width2 == PyMod(angles["last_light"] - angles["sunset"], FullCircle)
        daylight_width == PyMod(angles["sunset"] - angles["sunrise"], FullCircle)
    IN  << Bar(angles["last_light"], FullCircle - twilight_width1 - twilight_width2 - daylight_width, "darkblue"),
           Bar(angles["first_light"], twilight_width1, "midnightblue"),
           Bar(angles["sunset"], twilight_width2, "midnightblue"),
           Bar(angles["sunrise"], daylight_width, "gold") >>

\* src/length_of_day_plot.py _create_plot, lines 64-78: the bars in the order drawn
_create_plot(times) ==
    LET angles == [k \in DOMAIN times |-> plot_time_to_angle(times[k])]
        night_width == PyMod(angles["first_light"] - angles["last_light"], FullCircle)
        twilight_width1 == PyMod(angles["sunrise"] - angles["first_light"], FullCircle)
        twilight_width2 == PyMod(angles["last_light"] - angles["sunset"], FullCircle)
        daylight_width == PyMod(angles["sunset"] - angles["sunrise"], FullCircle)
    IN  << Bar(angles["last_light"], night_width, "darkblue"),
           Bar(angles["first_light"], twilight_width1, "midnightblue"),
           Bar(angles["sunset"], twilight_width2, "midnightblue"),
           Bar(angles["sunrise"], daylight_width, "gold") >>

\* src/length_of_day_plot.py main, lines 170-177: the times handed to _create_plot
\* (sun_info is the result of sun() for twilight_depression = 6)
plot_times(info) ==
    [midnight |-> Time(0, 0), noon |-> Time(12, 0),
     sunrise |-> time_of(info.sunrise), sunset |-> time_of(info.sunset),
     first_light |-> time_of(info.dawn), last_light |-> time_of(info.dusk)]

\* fill_colors
fill_colors == << "gold", "#0073CF", "#0000CD", "#00008B", "#00004B" >>

\* a mutant of update_plot_bars: the evening civil width is a plain subtraction
update_plot_bars_plain_civil_pm(angles) ==
    << Bar(angles["sunrise"], PyMod(angles["sunset"] - angles["sunrise"], FullCircle), fill_colors[1]),
       Bar(angles["civil_dawn"], PyMod(angles["sunrise"] - angles["civil_dawn"], FullCircle), fill_colors[2]),
       Bar(angles["sunset"], angles["civil_dusk"] - angles["sunset"], fill_colors[2]),
       Bar(angles["nautical_dawn"], PyMod(angles["civil_dawn"] - angles["nautical_dawn"], FullCircle), fill_colors[3]),
       Bar(angles["civil_dusk"], PyMod(angles["nautical_dusk"] - angles["civil_dusk"], FullCircle), fill_colors[3]),
       Bar(angles["astro_dawn"], PyMod(angles["nautical_dawn"] - angles["astro_dawn"], FullCircle), fill_colors[4]),
       Bar(angles["nautical_dusk"], PyMod(angles["astro_dusk"] - angles["nautical_dusk"], FullCircle), fill_colors[4]),
       Bar(angles["astro_dusk"], PyMod(angles["astro_dawn"] - angles["astro_dusk"], FullCircle), fill_colors[5]) >>

\* a mutant of update_plot_bars: the night runs from the nautical dusk, over the
\* evening astronomical twilight
update_plot_bars_night_from_nautical(angles) ==
    << Bar(angles["sunrise"], PyMod(angles["sunset"] - angles["sunrise"], FullCircle), fill_colors[1]),
       Bar(angles["civil_dawn"], PyMod(angles["sunrise"] - angles["civil_dawn"], FullCircle), fill_colors[2]),
       Bar(angles["sunset"], PyMod(angles["civil_dusk"] - angles["sunset"], FullCircle), fill_colors[2]),
       Bar(angles["nautical_dawn"], PyMod(angles["civil_dawn"] - angles["nautical_dawn"], FullCircle), fill_colors[3]),
       Bar(angles["civil_dusk"], PyMod(angles["nautical_dusk"] - angles["civil_dusk"], FullCircle), fill_colors[3]),
       Bar(angles["astro_dawn"], PyMod(angles["nautical_dawn"] - angles["astro_dawn"], FullCircle), fill_colors[4]),
       Bar(angles["nautical_dusk"], PyMod(angles["astro_dusk"] - angles["nautical_dusk"], FullCircle), fill_colors[4]),
       Bar(angles["nautical_dusk"], PyMod(angles["astro_dawn"] - angles["nautical_dusk"], FullCircle), fill_colors[5]) >>

\* a mutant of update_plot_bars: the evening astronomical twilight is anchored
\* at the civil dusk
update_plot_bars_astro_pm_from_civil(angles) ==
    << Bar(angles["sunrise"], PyMod(angles["sunset"] - angles["sunrise"], FullCircle), fill_colors[1]),
       Bar(angles["civil_dawn"], PyMod(angles["sunrise"] - angles["civil_dawn"], FullCircle), fill_colors[2]),
       Bar(angles["sunset"], PyMod(angles["civil_dusk"] - angles["sunset"], FullCircle), fill_colors[2]),
       Bar(angles["nautical_dawn"], PyMod(angles["civil_dawn"] - angles["nautical_dawn"], FullCircle), fill_colors[3]),
       Bar(angles["civil_dusk"], PyMod(angles["nautical_dusk"] - angles["civil_dusk"], FullCircle), fill_colors[3]),
       Bar(angles["astro_dawn"], PyMod(angles["nautical_dawn"] - angles["astro_dawn"], FullCircle), fill_colors[4]),
       Bar(angles["civil_dusk"], PyMod(angles["astro_dusk"] - angles["nautical_dusk"], FullCircle), fill_colors[4]),
       Bar(angles["astro_dusk"], PyMod(angles["astro_dawn"] - angles["astro_dusk"], FullCircle), fill_colors[5]) >>

\* a mutant of update_plot_bars: the daylight runs from sunset to sunrise
update_plot_bars_daylight_reversed(angles) ==
    << Bar(angles["sunset"], PyMod(angles["sunrise"] - angles["sunset"], FullCircle), fill_colors[1]),
       Bar(angles["civil_dawn"], PyMod(angles["sunrise"] - angles["civil_dawn"], FullCircle), fill_colors[2]),
       Bar(angles["sunset"], PyMod(angles["civil_dusk"] - angles["sunset"], FullCircle), fill_colors[2]),
       Bar(angles["nautical_dawn"], PyMod(angles["civil_dawn"] - angles["nautical_dawn"], FullCircle), fill_colors[3]),
       Bar(angles["civil_dusk"], PyMod(angles["nautical_dusk"] - angles["civil_dusk"], FullCircle), fill_colors[3]),
       Bar(angles["astro_dawn"], PyMod(angles["nautical_dawn"] - angles["astro_dawn"], FullCircle), fill_colors[4]),
       Bar(angles["nautical_dusk"], PyMod(angles["astro_dusk"] - angles["nautical_dusk"], FullCircle), fill_colors[4]),
       Bar(angles["astro_dusk"], PyMod(angles["astro_dawn"] - angles["astro_dusk"], FullCircle), fill_colors[5]) >>

\* src/length_of_day_app_qt.py update_plot, lines 485-511: the bars in the order drawn
update_plot_bars(angles) ==
    LET daylight_width == PyMod(angles["sunset"] - angles["sunrise"], FullCircle)
        civil_twilight_width_am == PyMod(angles["sunrise"] - angles["civil_dawn"], FullCircle)
        civil_twilight_width_pm == PyMod(angles["civil_dusk"] - angles["sunset"], FullCircle)
        naut_twilight_width_am == PyMod(angles["civil_dawn"] - angles["nautical_dawn"], FullCircle)
        naut_twilight_width_pm == PyMod(angles["nautical_dusk"] - angles["civil_dusk"], FullCircle)
        astro_twilight_width_am == PyMod(angles["nautical_dawn"] - angles["astro_dawn"], FullCircle)
        astro_twilight_width_pm == PyMod(angles["astro_dusk"] - angles["nautical_dusk"], FullCircle)
        night_width == PyMod(angles["astro_dawn"] - angles["astro_dusk"], FullCircle)
    IN  << Bar(angles["sunrise"], daylight_width, fill_colors[1]),
           Bar(angles["civil_dawn"], civil_twilight_width_am, fill_colors[2]),
           Bar(angles["sunset"], civil_twilight_width_pm, fill_colors[2]),
           Bar(angles["nautical_dawn"], naut_twilight_width_am, fill_colors[3]),
           Bar(angles["civil_dusk"], naut_twilight_width_pm, fill_colors[3]),
           Bar(angles["astro_dawn"], astro_twilight_width_am, fill_colors[4]),
           Bar(angles["nautical_dusk"], astro_twilight_width_pm, fill_colors[4]),
           Bar(angles["astro_dusk"], night_width, fill_colors[5]) >>

\* src/length_of_day_app_qt.py update_plot, lines 428-465: sun_data flattened into
\* angles.  event_times holds the result of the query for depression 0, and
\* twilight_times[t] the dawn and dusk read after the query for depression t.
update_plot_angles(event_times, twilight_times) ==
    [noon |-> time_to_angle(time_of(event_times.noon)),
     sunrise |-> time_to_angle(time_of(event_times.sunrise)),
     sunset |-> time_to_angle(time_of(event_times.sunset)),
     civil_dawn |-> time_to_angle(time_of(twilight_times["dusk_civil"].dawn)),
     civil_dusk |-> time_to_angle(time_of(twilight_times["dusk_civil"].dusk)),
     nautical_dawn |-> time_to_angle(time_of(twilight_times["dusk_nautical"].dawn)),
     nautical_dusk |-> time_to_angle(time_of(twilight_times["dusk_nautical"].dusk)),
     astro_dawn |-> time_to_angle(time_of(twilight_times["dusk_astro"].dawn)),
     astro_dusk |-> time_to_angle(time_of(twilight_times["dusk_astro"].dusk))]

\* the LocationDialog: not shown, shown (dialog.exec() is waiting), or closed by
\* accept with these texts in its fields (dialog.exec() is about to return)
ClosedDialog == [state |-> "closed", fields |-> None]

OpenDialog == [state |-> "open", fields |-> None]

AcceptedDialog(lat_input, lon_input, loc_input, tz_input) ==
    [state |-> "accepted",
     fields |-> Some([lat_input |-> lat_input, lon_input |-> lon_input,
                      loc_input |-> loc_input, tz_input |-> tz_input])]

\* the cleared figure of __init__
EmptyFigure == [bars |-> << >>, lines |-> << >>, title |-> None, text |-> None]

-----------------------------------------------------------------------------
(* The application before any menu action (DayLengthCalculator.__init__ and  *)
(* the class attributes of LocationDialog)                                   *)

AppInit ==
    /\ target_date = None
    /\ location = None
    /\ sun_info = None
    /\ figure = EmptyFigure
    /\ raised = "none"
    /\ dialog = ClosedDialog
    /\ last_values = [last_location_name |-> None, last_latitude |-> None,
                      last_longitude |-> None, last_tz_str |-> None]
    /\ last_render = None
    /\ first_render = None

-----------------------------------------------------------------------------
(* SpecAngle: both time_to_angle functions on every datetime.time *)

InitAngle ==
    /\ AppInit
    /\ args \in TimeOfDay
    /\ returned = NoCall

CallTimeToAngle ==
    /\ returned.fn # "time_to_angle"
    /\ returned' = [fn |-> "time_to_angle", val |-> time_to_angle(args)]
    /\ UNCHANGED << appVars, args >>

CallPlotTimeToAngle ==
    /\ returned.fn # "plot.time_to_angle"
    /\ returned' = [fn |-> "plot.time_to_angle", val |-> plot_time_to_angle(args)]
    /\ UNCHANGED << appVars, args >>

\* values that are no datetime.time: dicts (nested, empty, with the keys hour
\* and minute), and None
OtherValues(t) ==
    { Dict([a |-> t, n |-> Dict([b |-> Time(12, 0)]), e |-> Dict(<< >>)]),
      Dict([hour |-> t, minute |-> Time(12, 0)]),
      Dict([hour |-> PyInt(5), minute |-> PyInt(30)]),
      None }

\* the application's time_to_angle handed such a value
CallTimeToAngleDict ==
    /\ returned.fn # "time_to_angle(other)"
    /\ \E value \in OtherValues(args) :
           returned' = [fn |-> "time_to_angle(other)", of |-> value, val |-> time_to_angle(value)]
    /\ UNCHANGED << appVars, args >>

\* the time_to_angle of length_of_day_plot.py handed such a value
CallPlotTimeToAngleDict ==
    /\ returned.fn # "plot.time_to_angle(other)"
    /\ \E value \in OtherValues(args) :
           returned' = [fn |-> "plot.time_to_angle(other)", of |-> value,
                        val |-> plot_time_to_angle(value)]
    /\ UNCHANGED << appVars, args >>

NextAngle ==
    \/ CallTimeToAngle
    \/ CallPlotTimeToAngle
    \/ CallTimeToAngleDict
    \/ CallPlotTimeToAngleDict

SpecAngle == InitAngle /\ [][NextAngle]_vars

-----------------------------------------------------------------------------
(* SpecAngleDomain: both time_to_angle functions on values whose hour and    *)
(* minute attributes may lie outside the domain of datetime.time.  The       *)
(* functions read value.hour and value.minute of whatever they are handed.   *)

HourSlack == 2

MinuteSlack == 2

\* objects with an hour and a minute attribute, in and out of range
HourMinuteValues ==
    { Time(h, m) : h \in (0 - HourSlack) .. (HoursPerDay - 1 + HourSlack),
                   m \in (0 - MinuteSlack) .. (MinutesPerHour - 1 + MinuteSlack) }

InitAngleDomain ==
    /\ AppInit
    /\ args \in HourMinuteValues
    /\ returned = NoCall

SpecAngleDomain == InitAngleDomain /\ [][NextAngle]_vars

-----------------------------------------------------------------------------
(* SpecDst: dst_in_effect on every valid date of the years FirstYear ..       *)
(* FirstYear + NumYears - 1                                                  *)

FirstYear == 2020

NumYears == 8

Years == FirstYear .. (FirstYear + NumYears - 1)

ValidDates ==
    { d \in [year : Years, month : 1 .. 12, day : 1 .. 31] : d.day <= DaysInMonth(d.year, d.month) }

InitDst ==
    /\ AppInit
    /\ args \in ValidDates
    /\ returned = NoCall

CallDstInEffect ==
    /\ returned = NoCall
    /\ returned' = [fn |-> "dst_in_effect", val |-> dst_in_effect(args.year, args.month, args.day)]
    /\ UNCHANGED << appVars, args >>

NextDst == CallDstInEffect

SpecDst == InitDst /\ [][NextDst]_vars

-----------------------------------------------------------------------------
(* SpecGeometry: the bar-building code of both wheels on bounded sets of     *)
(* event times.  args gives the time of day of the eight events that bound   *)
(* the bars; _create_plot is handed the civil dawn and dusk as first and     *)
(* last light, as main() of length_of_day_plot.py does with                  *)
(* twilight_depression = 6.                                                  *)

EventLabels ==
    { "astro_dawn", "nautical_dawn", "civil_dawn", "sunrise",
      "sunset", "civil_dusk", "nautical_dusk", "astro_dusk" }

\* the events in the clockwise order of a day
EventCycle ==
    << "astro_dawn", "nautical_dawn", "civil_dawn", "sunrise",
       "sunset", "civil_dusk", "nautical_dusk", "astro_dusk" >>

NumCoarse == 3

CoarseStep == 370

\* a few times of day spread over the day, midnight among them
CoarseTimes == { MinuteOfDay(k * CoarseStep) : k \in 0 .. (NumCoarse - 1) }

\* every assignment of the coarse times to the eight events: equal, unordered
\* and ordered boundaries alike
CoarseDays == [EventLabels -> CoarseTimes]

NumStarts == 3

StartStep == 275

MaxGap == 3

GapUnit == 45

RECURSIVE SumTo(_, _)
SumTo(f, n) == IF n = 0 THEN 0 ELSE SumTo(f, n - 1) + f[n]

\* days whose eight events are distinct and follow each other clockwise: an
\* astronomical dawn and seven positive gaps that together stay under 24 hours
OrderedDays ==
    { [l \in EventLabels |->
          LET i == CHOOSE j \in 1 .. 8 : EventCycle[j] = l
          IN  MinuteOfDay(s * StartStep + GapUnit * SumTo(g, i - 1))] :
      s \in 1 .. NumStarts,
      g \in { h \in [1 .. 7 -> 1 .. MaxGap] : GapUnit * SumTo(h, 7) < MinutesPerDay } }

NumBand == 6

BandStep == 245

BandTimes == { MinuteOfDay(k * BandStep) : k \in 0 .. (NumBand - 1) }

\* days of a single twilight band: the nautical and astronomical events fall on
\* the civil ones
SingleBandDays ==
    { [l \in EventLabels |->
          CASE l \in {"astro_dawn", "nautical_dawn", "civil_dawn"} -> q[1]
            [] l = "sunrise" -> q[2]
            [] l = "sunset" -> q[3]
            [] OTHER -> q[4]] :
      q \in [1 .. 4 -> BandTimes] }

\* the day of the specification's scenarios 1 and 2
ScenarioDays ==
    { [astro_dawn |-> Time(4, 15), nautical_dawn |-> Time(4, 55), civil_dawn |-> Time(5, 30),
       sunrise |-> Time(6, 0), sunset |-> Time(20, 0), civil_dusk |-> Time(20, 30),
       nautical_dusk |-> Time(21, 5), astro_dusk |-> Time(21, 45)] }

InitGeometry ==
    /\ AppInit
    /\ args \in (CoarseDays \cup OrderedDays \cup SingleBandDays \cup ScenarioDays)
    /\ returned = NoCall

\* _create_plot(times, ...) as main() of length_of_day_plot.py calls it
CallCreatePlot ==
    /\ returned.fn # "_create_plot"
    /\ LET info == [dawn |-> DatetimeAt(args["civil_dawn"]), sunrise |-> DatetimeAt(args["sunrise"]),
                    sunset |-> DatetimeAt(args["sunset"]), dusk |-> DatetimeAt(args["civil_dusk"])]
       IN  returned' = [fn |-> "_create_plot", val |-> _create_plot(plot_times(info))]
    /\ UNCHANGED << appVars, args >>

\* lines 456-511 of update_plot on the eight event times
CallUpdatePlotBars ==
    /\ returned.fn # "update_plot"
    /\ LET event_times == [noon |-> DatetimeAt(Time(12, 0)), sunrise |-> DatetimeAt(args["sunrise"]),
                           sunset |-> DatetimeAt(args["sunset"])]
           twilight_times ==
               [dusk_civil |-> [dawn |-> DatetimeAt(args["civil_dawn"]), dusk |-> DatetimeAt(args["civil_dusk"])],
                dusk_nautical |-> [dawn |-> DatetimeAt(args["nautical_dawn"]), dusk |-> DatetimeAt(args["nautical_dusk"])],
                dusk_astro |-> [dawn |-> DatetimeAt(args["astro_dawn"]), dusk |-> DatetimeAt(args["astro_dusk"])]]
       IN  returned' = [fn |-> "update_plot",
                        val |-> update_plot_bars(update_plot_angles(event_times, twilight_times))]
    /\ UNCHANGED << appVars, args >>

NextGeometry == CallCreatePlot \/ CallUpdatePlotBars

SpecGeometry == InitGeometry /\ [][NextGeometry]_vars

-----------------------------------------------------------------------------------------------------------------------------------------------------
(* The solar-time oracle, astral.sun.sun, as get_sun_info calls it.  It is   *)
(* not code of the repository: it is modelled as a fixed function of the     *)
(* observer, the date, the timezone and the depression, with representative  *)
(* values for a mid-latitude and a polar observer on two dates of 2025.  It  *)
(* answers with all five events or raises ValueError (None here): when the   *)
(* sun does not rise or set on that day, or never reaches the depression.    *)
(* Each answer carries, as a ghost field, the query it answers.              *)

\* the dates the date dialog is given
AppDates ==
    { [year |-> 2025, month |-> 4, day |-> 20],
      [year |-> 2025, month |-> 6, day |-> 21] }

\* degrees are counted in units of 0.00001 degree
Degrees(n) == n * 100000

\* beyond the polar circle the model observer has the polar day in June and
\* bright nights in April
Polar(latitude) == latitude >= Degrees(66) \/ latitude <= Degrees(-66)

\* minutes from sunrise to solar noon, None when the sun does not rise or set
HalfDay(latitude, date) ==
    IF Polar(latitude)
    THEN IF date.month = 4 THEN Some(525) ELSE None
    ELSE IF date.month = 4 THEN Some(407) ELSE Some(458)

\* minutes from the dawn at the depression to sunrise (sunrise is at 0.833
\* degrees, so the dawn at depression 0 comes after it), None when the sun
\* never gets that far below the horizon
TwilightLength(latitude, date, depression) ==
    IF Polar(latitude)
    THEN IF date.month = 4
         THEN IF depression = 0 THEN Some(-12)
              ELSE IF depression = 6 THEN Some(130) ELSE None
         ELSE None
    ELSE IF date.month = 4
         THEN Some(CASE depression = 0 -> -5 [] depression = 6 -> 30
                     [] depression = 12 -> 66 [] OTHER -> 105)
         ELSE Some(CASE depression = 0 -> -5 [] depression = 6 -> 33
                     [] depression = 12 -> 76 [] OTHER -> 128)

\* the equation of time on the date, in minutes
EquationOfTime(date) == IF date.month = 4 THEN -1 ELSE 2

\* the offset of the timezone from UTC on the date, in minutes
UtcOffset(tz, date) == IF tz.zone = "US/Eastern" THEN -240 ELSE 0

\* solar noon on the clock of the timezone
SolarNoon(longitude, tz, date) ==
    (12 * MinutesPerHour) - ((longitude * 4) \div Degrees(1)) + EquationOfTime(date) + UtcOffset(tz, date)

\* sun(observer, date=..., tzinfo=..., dawn_dusk_depression=...)
sun(observer, date, tzinfo, dawn_dusk_depression) ==
    LET half == HalfDay(observer.latitude, date)
        twilight == TwilightLength(observer.latitude, date, dawn_dusk_depression)
        noon == SolarNoon(observer.longitude, tzinfo, date)
    IN  IF half = None \/ twilight = None
        THEN None
        ELSE Some([dawn |-> noon - half[1] - twilight[1],
                   sunrise |-> noon - half[1],
                   noon |-> noon,
                   sunset |-> noon + half[1],
                   dusk |-> noon + half[1] + twilight[1],
                   query |-> [date |-> date, latitude |-> observer.latitude,
                              longitude |-> observer.longitude, tz |-> tzinfo.zone,
                              depression |-> dawn_dusk_depression]])

-----
(* The dialogs of src/length_of_day_app_qt.py *)

\* what the user may have typed into the fields of the LocationDialog
LatTexts == { "42.2253", "69.65", "95", "abc" }

LonTexts == { "-83.74567", "200", "x" }

NameTexts == { "Ann Arbor" }

TzTexts == { "US/Eastern", " US/Eastern ", "Mars/Phobos" }

\* float(text): the number, in units of 0.00001, or None for ValueError
float(text) ==
    CASE text = "42.2253" -> Some(4222530)
      [] text = "69.65" -> Some(6965000)
      [] text = "95" -> Some(9500000)
      [] text = "-83.74567" -> Some(-8374567)
      [] text = "200" -> Some(20000000)
      [] OTHER -> None

\* str.strip()
strip(text) ==
    CASE text = " US/Eastern " -> "US/Eastern"
      [] OTHER -> text

\* pytz.all_timezones: the zones of the TimeZoneDialog table stand for the list
all_timezones ==
    { "UTC", "Europe/Paris", "Europe/London", "US/Eastern", "US/Central",
      "US/Mountain", "US/Arizona", "US/Pacific" }

\* a mutant of get_lat_lon: the range of the coordinates is not validated
get_lat_lon_any_range(lat_input, lon_input) ==
    LET lat_text == strip(lat_input)
        lon_text == strip(lon_input)
        lat == float(lat_text)
        lon == float(lon_text)
    IN  IF lat_text = "" \/ lon_text = "" THEN None
        ELSE IF lat = None \/ lon = None THEN None
        ELSE Some(<< lat[1], lon[1] >>)

\* LocationDialog.get_lat_lon: << lat, lon >> or None for (None, None)
get_lat_lon(lat_input, lon_input) ==
    LET lat_text == strip(lat_input)
        lon_text == strip(lon_input)
        lat == float(lat_text)
        lon == float(lon_text)
    IN  IF lat_text = "" \/ lon_text = "" THEN None
        ELSE IF lat = None \/ lon = None THEN None
        ELSE IF Degrees(-90) <= lat[1] /\ lat[1] <= Degrees(90)
                /\ Degrees(-180) <= lon[1] /\ lon[1] <= Degrees(180)
             THEN Some(<< lat[1], lon[1] >>)
             ELSE None

\* LocationInfo(name, region, timezone, latitude, longitude)
LocationInfo(name, region, timezone, latitude, longitude) ==
    [name |-> name, region |-> region, timezone |-> timezone,
     latitude |-> latitude, longitude |-> longitude]

\* select_date: the DateEntryDialog is closed with OK on date d
SelectDate(d) ==
    /\ dialog.state = "closed"
    /\ target_date' = Some(d)
    /\ raised' = "none"
    /\ UNCHANGED << location, sun_info, figure, dialog, last_values, last_render, first_render,
                    args, returned >>

\* select_date: the DateEntryDialog is closed without OK
SelectDateRejected ==
    /\ dialog.state = "closed"
    /\ raised' = "Invalid date input."
    /\ UNCHANGED << target_date, location, sun_info, figure, dialog, last_values,
                    last_render, first_render, args, returned >>

\* select_location up to dialog.exec(): the modal LocationDialog opens
SelectLocation ==
    /\ dialog.state = "closed"
    /\ dialog' = OpenDialog
    /\ raised' = "none"
    /\ UNCHANGED << target_date, location, sun_info, figure, last_values, last_render, first_render,
                    args, returned >>

\* the LocationDialog is closed without OK: dialog.exec() is false and
\* select_location does nothing
LocationDialogRejected ==
    /\ dialog.state = "open"
    /\ dialog' = ClosedDialog
    /\ raised' = "none"
    /\ UNCHANGED << target_date, location, sun_info, figure, last_values, last_render, first_render,
                    args, returned >>

\* OK is clicked with these texts in the fields: LocationDialog.accept.  It
\* stores the remembered values one by one and closes the dialog, or stops at
\* the first ValueError and shows it, the dialog staying open.
LocationDialogAccept(lat_input, lon_input, loc_input, tz_input) ==
    LET lat == float(lat_input)
        lon == float(lon_input)
        tz_str == strip(tz_input)
    IN  /\ dialog.state = "open"
        /\ UNCHANGED << target_date, location, sun_info, figure, last_render, first_render,
                        args, returned >>
        /\ IF lat = None
           THEN /\ raised' = "ValueError: could not convert string to float"
                /\ UNCHANGED << last_values, dialog >>
           ELSE IF lon = None
           THEN /\ last_values' = [last_values EXCEPT !.last_latitude = lat]
                /\ raised' = "ValueError: could not convert string to float"
                /\ UNCHANGED dialog
           ELSE IF tz_str \notin all_timezones
           THEN /\ last_values' = [last_values EXCEPT !.last_latitude = lat,
                                                      !.last_longitude = lon,
                                                      !.last_location_name = Some(strip(loc_input))]
                /\ raised' = "ValueError: Invalid timezone input."
                /\ UNCHANGED dialog
           ELSE /\ last_values' = [last_location_name |-> Some(strip(loc_input)),
                                   last_latitude |-> lat, last_longitude |-> lon,
                                   last_tz_str |-> Some(tz_str)]
                /\ dialog' = AcceptedDialog(lat_input, lon_input, loc_input, tz_input)
                /\ raised' = "none"

\* select_location after dialog.exec() returned true: the coordinates are read
\* back from the fields of the dialog and the location is set, or the entry is
\* turned down
SelectLocationAccepted ==
    /\ dialog.state = "accepted"
    /\ dialog' = ClosedDialog
    /\ UNCHANGED << target_date, sun_info, figure, last_values, last_render, first_render,
                    args, returned >>
    /\ LET fields == dialog.fields[1]
           coords == get_lat_lon(fields.lat_input, fields.lon_input)
       IN  IF coords # None
           THEN /\ location' =
                      Some([info |-> LocationInfo(strip(fields.loc_input), "", strip(fields.tz_input),
                                                  coords[1][1], coords[1][2]),
                            latitude |-> coords[1][1],
                            longitude |-> coords[1][2],
                            location_name |-> strip(fields.loc_input),
                            region |-> "",
                            tz_str |-> strip(fields.tz_input),
                            tz |-> [zone |-> strip(fields.tz_input)]])
                /\ raised' = "none"
           ELSE /\ raised' = "Invalid latitude/longitude input."
                /\ UNCHANGED location

-----------------------------------------------------------------------------
(* get_sun_info and update_plot *)

\* depression_angles
depression_angles == [dusk_civil |-> 6, dusk_nautical |-> 12, dusk_astro |-> 18]

\* get_sun_info(twilight_depression) with self.sun_info = info before the call:
\* self.sun_info after it.  A ValueError of sun() is printed and the attribute
\* keeps what it held.
get_sun_info(info, twilight_depression) ==
    IF location = None
    THEN info
    ELSE LET answer == sun([latitude |-> location[1].info.latitude,
                            longitude |-> location[1].info.longitude],
                           target_date[1], location[1].tz, twilight_depression)
         IN  IF answer = None THEN info ELSE answer

\* whether sun() answers the query of get_sun_info(twilight_depression)
Answered(twilight_depression) ==
    sun([latitude |-> location[1].info.latitude, longitude |-> location[1].info.longitude],
        target_date[1], location[1].tz, twilight_depression) # None

\* the title of the plot
Title ==
    [date |-> target_date[1], name |-> location[1].info.name,
     latitude |-> location[1].latitude, longitude |-> location[1].longitude,
     tz_str |-> location[1].tz_str]

\* update_plot
UpdatePlot ==
    /\ dialog.state = "closed"
    /\ UNCHANGED << target_date, location, dialog, last_values, args, returned >>
    /\ IF target_date = None
       THEN /\ raised' = "No date selected."
            /\ UNCHANGED << sun_info, figure, last_render, first_render >>
       ELSE IF location = None
       THEN /\ raised' = "No location selected."
            /\ UNCHANGED << sun_info, figure, last_render, first_render >>
       ELSE LET info0 == get_sun_info(sun_info, 0)
            IN  IF info0 = None
                THEN \* line 430: self.sun_info does not exist
                     LET render == [date |-> target_date[1], location |-> location[1],
                                    answered |-> << Answered(0) >>, used |-> << >>,
                                    raised |-> "AttributeError: sun_info", bars |-> << >>]
                     IN  /\ raised' = "AttributeError: sun_info"
                         /\ last_render' = Some(render)
                         /\ first_render' = IF first_render = None THEN Some(render) ELSE first_render
                         /\ UNCHANGED << sun_info, figure >>
                ELSE LET event_times == [noon |-> info0[1].noon, sunrise |-> info0[1].sunrise,
                                         sunset |-> info0[1].sunset]
                         info6 == get_sun_info(info0, depression_angles["dusk_civil"])
                         info12 == get_sun_info(info6, depression_angles["dusk_nautical"])
                         info18 == get_sun_info(info12, depression_angles["dusk_astro"])
                         twilight_times ==
                             [dusk_civil |-> [dawn |-> info6[1].dawn, dusk |-> info6[1].dusk],
                              dusk_nautical |-> [dawn |-> info12[1].dawn, dusk |-> info12[1].dusk],
                              dusk_astro |-> [dawn |-> info18[1].dawn, dusk |-> info18[1].dusk]]
                         angles == update_plot_angles(event_times, twilight_times)
                         bars == update_plot_bars(angles)
                         render == [date |-> target_date[1], location |-> location[1],
                                    answered |-> << Answered(0), Answered(6), Answered(12), Answered(18) >>,
                                    used |-> [noon |-> info0[1].query, sunrise |-> info0[1].query,
                                              sunset |-> info0[1].query,
                                              civil_dawn |-> info6[1].query, civil_dusk |-> info6[1].query,
                                              nautical_dawn |-> info12[1].query,
                                              nautical_dusk |-> info12[1].query,
                                              astro_dawn |-> info18[1].query,
                                              astro_dusk |-> info18[1].query],
                                    raised |-> "none", bars |-> bars]
                     IN  /\ sun_info' = info18
                         /\ figure' = [bars |-> bars,
                                       lines |-> << angles["noon"], angles["noon"] + (FullCircle \div 2) >>,
                                       title |-> Some(Title),
                                       text |-> Some([sunrise |-> time_of(info18[1].sunrise),
                                                      sunset |-> time_of(info18[1].sunset),
                                                      day_length |-> info18[1].sunset - info18[1].sunrise])]
                         /\ raised' = "none"
                         /\ last_render' = Some(render)
                         /\ first_render' = IF first_render = None THEN Some(render) ELSE first_render

Init ==
    /\ AppInit
    /\ args = None
    /\ returned = NoCall

Next ==
    \/ \E d \in AppDates : SelectDate(d)
    \/ SelectDateRejected
    \/ SelectLocation
    \/ LocationDialogRejected
    \/ \E lat_input \in LatTexts, lon_input \in LonTexts, loc_input \in NameTexts, tz_input \in TzTexts :
           LocationDialogAccept(lat_input, lon_input, loc_input, tz_input)
    \/ SelectLocationAccepted
    \/ UpdatePlot

Spec == Init /\ [][Next]_vars

-----------------------------------------------------------------------------
(* THE CLAIMS                                                                *)
(*                                                                           *)
(* What the claims speak of is defined here on its own, not through the      *)
(* operators that model the code: the angle of a time of day as its minute,  *)
(* the clockwise arc by a case distinction, the weekday by Sakamoto's rule.  *)

\* the angle of a time of day, as the fraction (hour + minute/60)/24 of the circle
AngleOf(t) == t.hour * 60 + t.minute

\* the clockwise arc from angle a to angle b, both in [0, FullCircle)
Clockwise(a, b) == IF b >= a THEN b - a ELSE b - a + FullCircle

RECURSIVE TotalWidthTo(_, _)
TotalWidthTo(bars, n) == IF n = 0 THEN 0 ELSE TotalWidthTo(bars, n - 1) + bars[n].width

TotalWidth(bars) == TotalWidthTo(bars, Len(bars))

\* the angles of seq are distinct and met in this order going clockwise from seq[1]
StrictlyClockwise(seq) ==
    /\ \A i \in 2 .. Len(seq) : seq[i] # seq[1]
    /\ \A i \in 1 .. (Len(seq) - 1) : Clockwise(seq[1], seq[i]) < Clockwise(seq[1], seq[i + 1])

\* seq turned so that it starts at its r-th angle
Rotated(seq, r) == [i \in 1 .. Len(seq) |-> seq[((r + i - 2) % Len(seq)) + 1]]

\* the angles of seq are met in this order going clockwise once round from one
\* of them, equal angles allowed
WeaklyClockwise(seq) ==
    \E r \in 1 .. Len(seq) :
        LET t == Rotated(seq, r)
        IN  \A i \in 1 .. (Len(seq) - 1) : Clockwise(t[1], t[i]) <= Clockwise(t[1], t[i + 1])

SomeCoincide(seq) == \E i, j \in 1 .. Len(seq) : i < j /\ seq[i] = seq[j]

AllCoincide(seq) == \A i \in 1 .. Len(seq) : seq[i] = seq[1]

\* the boundaries of the single-band wheel in the order of its cycle:
\* last_light, first_light, sunrise, sunset
PlotBoundaries ==
    << AngleOf(args["civil_dusk"]), AngleOf(args["civil_dawn"]),
       AngleOf(args["sunrise"]), AngleOf(args["sunset"]) >>

\* the boundaries of the multi-band wheel in the order of its cycle, from the
\* astronomical dawn to the astronomical dusk
WheelBoundaries == [i \in 1 .. 8 |-> AngleOf(args[EventCycle[i]])]

CalledBoundaries == IF returned.fn = "_create_plot" THEN PlotBoundaries ELSE WheelBoundaries

\* for each bar in drawing order, the events it runs from and to
PlotPairs ==
    << << "civil_dusk", "civil_dawn" >>, << "civil_dawn", "sunrise" >>,
       << "sunset", "civil_dusk" >>, << "sunrise", "sunset" >> >>

WheelPairs ==
    << << "sunrise", "sunset" >>, << "civil_dawn", "sunrise" >>, << "sunset", "civil_dusk" >>,
       << "nautical_dawn", "civil_dawn" >>, << "civil_dusk", "nautical_dusk" >>,
       << "astro_dawn", "nautical_dawn" >>, << "nautical_dusk", "astro_dusk" >>,
       << "astro_dusk", "astro_dawn" >> >>

CalledPairs == IF returned.fn = "_create_plot" THEN PlotPairs ELSE WheelPairs

BarsBuilt == returned.fn \in {"_create_plot", "update_plot"}

DaylightBar == IF returned.fn = "_create_plot" THEN returned.val[4] ELSE returned.val[1]

NightBar == IF returned.fn = "_create_plot" THEN returned.val[1] ELSE returned.val[8]

CountColor(bars, c) == Cardinality({ i \in 1 .. Len(bars) : bars[i].color = c })

\* C1: for four distinct single-band boundaries in the clockwise order
\* last_light -> first_light -> sunrise -> sunset, the four widths computed by
\* _create_plot sum to exactly one full circle.
C1_SingleBandTiling ==
    (returned.fn = "_create_plot" /\ StrictlyClockwise(PlotBoundaries))
        => (Len(returned.val) = 4 /\ TotalWidth(returned.val) = FullCircle)

\* an ordered day whose sunset falls after midnight, so that the daylight bar wraps
C1_Witness ==
    /\ returned.fn = "_create_plot"
    /\ StrictlyClockwise(PlotBoundaries)
    /\ AngleOf(args["sunset"]) < AngleOf(args["sunrise"])
    /\ TotalWidth(returned.val) = FullCircle

\* C2 as stated: for a 3-band event set in strict clockwise order update_plot
\* emits 9 segments whose widths sum to the full circle.
C2_Original ==
    (returned.fn = "update_plot" /\ StrictlyClockwise(WheelBoundaries))
        => (Len(returned.val) = 9 /\ TotalWidth(returned.val) = FullCircle)

\* C2 as amended: for a 3-band event set in strict clockwise order update_plot
\* emits 8 segments (daylight, 2 civil, 2 nautical, 2 astronomical, night) whose
\* widths sum to the full circle.
C2_MultiBandTiling ==
    (returned.fn = "update_plot" /\ StrictlyClockwise(WheelBoundaries))
        => /\ Len(returned.val) = 8
           /\ CountColor(returned.val, fill_colors[1]) = 1
           /\ CountColor(returned.val, fill_colors[2]) = 2
           /\ CountColor(returned.val, fill_colors[3]) = 2
           /\ CountColor(returned.val, fill_colors[4]) = 2
           /\ CountColor(returned.val, fill_colors[5]) = 1
           /\ TotalWidth(returned.val) = FullCircle

\* an ordered 3-band day whose astronomical dusk falls after midnight
C2_Witness ==
    /\ returned.fn = "update_plot"
    /\ StrictlyClockwise(WheelBoundaries)
    /\ AngleOf(args["astro_dusk"]) < AngleOf(args["astro_dawn"])
    /\ Len(returned.val) = 8
    /\ TotalWidth(returned.val) = FullCircle

\* the labels of the events update_plot needs, and the depression whose query
\* delivers each
RequiredLabels ==
    { "noon", "sunrise", "sunset", "civil_dawn", "civil_dusk",
      "nautical_dawn", "nautical_dusk", "astro_dawn", "astro_dusk" }

DepressionOf(label) ==
    CASE label \in {"noon", "sunrise", "sunset"} -> 0
      [] label \in {"civil_dawn", "civil_dusk"} -> 6
      [] label \in {"nautical_dawn", "nautical_dusk"} -> 12
      [] OTHER -> 18

MissingEventErrors ==
    { "MissingEventError: noon", "MissingEventError: sunrise", "MissingEventError: sunset",
      "MissingEventError: civil_dawn", "MissingEventError: civil_dusk",
      "MissingEventError: nautical_dawn", "MissingEventError: nautical_dusk",
      "MissingEventError: astro_dawn", "MissingEventError: astro_dusk" }

\* a query of the render was not answered by the oracle
SomeQueryFailed(render) == \E i \in 1 .. Len(render.answered) : ~render.answered[i]

\* C3: when the oracle produced no value for a required event, update_plot
\* signals a MissingEventError naming the label and emits no segment.
C3_MissingEvent ==
    (last_render # None /\ SomeQueryFailed(last_render[1]))
        => /\ last_render[1].raised \in MissingEventErrors
           /\ last_render[1].bars = << >>

\* C4: every event time that update_plot turns into a segment boundary comes
\* from an answered query of that same call, for the date and location of the
\* call and for the depression of the boundary's own band.
C4_NoStaleResults ==
    (last_render # None /\ last_render[1].bars # << >>)
        => \A label \in RequiredLabels :
               last_render[1].used[label]
                   = [date |-> last_render[1].date,
                      latitude |-> last_render[1].location.info.latitude,
                      longitude |-> last_render[1].location.info.longitude,
                      tz |-> last_render[1].location.tz.zone,
                      depression |-> DepressionOf(label)]

\* C5 as stated: when boundary angles coincide the bars are built, the daylight
\* width is 0 where sunrise = sunset, the night width is the full circle when
\* every boundary coincides (sunrise = sunset = 00:00), and the widths still sum
\* to the full circle.
C5_Original ==
    (BarsBuilt /\ SomeCoincide(CalledBoundaries) /\ WeaklyClockwise(CalledBoundaries))
        => /\ Len(returned.val) = Len(CalledPairs)
           /\ (AngleOf(args["sunrise"]) = AngleOf(args["sunset"]) => DaylightBar.width = 0)
           /\ (AllCoincide(CalledBoundaries) => NightBar.width = FullCircle)
           /\ TotalWidth(returned.val) = FullCircle

\* C5 as amended: when boundary angles coincide, in weak clockwise order, the
\* bars are built, the daylight width is 0 where sunrise = sunset, no width
\* reaches the full circle, and the widths sum to the full circle unless every
\* boundary coincides: then every width, the night's too, is 0 and the sum is 0.
C5_DegenerateGeometry ==
    (BarsBuilt /\ SomeCoincide(CalledBoundaries) /\ WeaklyClockwise(CalledBoundaries))
        => /\ Len(returned.val) = Len(CalledPairs)
           /\ (AngleOf(args["sunrise"]) = AngleOf(args["sunset"]) => DaylightBar.width = 0)
           /\ \A i \in 1 .. Len(returned.val) : returned.val[i].width < FullCircle
           /\ (AllCoincide(CalledBoundaries)
                  => (NightBar.width = 0 /\ TotalWidth(returned.val) = 0))
           /\ (~AllCoincide(CalledBoundaries) => TotalWidth(returned.val) = FullCircle)

\* scenario 3: every event at 00:00, the multi-band wheel built
C5_Witness ==
    /\ returned.fn = "update_plot"
    /\ \A l \in EventLabels : args[l] = Time(0, 0)
    /\ DaylightBar.width = 0
    /\ NightBar.width = 0

\* C6: for every time of day time_to_angle returns the angle
\* (hour + minute/60)/24 of the full circle, in [0, full circle), non-decreasing
\* as (hour, minute) grows, 0 at 00:00 and half the circle at 12:00.
C6_AngleRangeAndMonotone ==
    (returned.fn \in {"time_to_angle", "plot.time_to_angle"})
        => LET f(t) == IF returned.fn = "time_to_angle" THEN time_to_angle(t) ELSE plot_time_to_angle(t)
           IN  /\ 0 <= returned.val /\ returned.val < FullCircle
               /\ returned.val * 24 * 60 = (args.hour * 60 + args.minute) * FullCircle
               /\ \A t \in TimeOfDay :
                      (t.hour > args.hour \/ (t.hour = args.hour /\ t.minute >= args.minute))
                          => returned.val <= f(t)
               /\ (args = Time(0, 0) => returned.val = 0)
               /\ (args = Time(12, 0) => 2 * returned.val = FullCircle)

\* 12:00 mapped to half the circle by the application's time_to_angle
C6_Witness ==
    /\ returned.fn = "time_to_angle"
    /\ args = Time(12, 0)
    /\ 2 * returned.val = FullCircle

\* C7: every width of both wheels is the clockwise arc (B - A) mod full circle
\* between the bar's two boundaries, so it lies in [0, full circle) and is 0
\* between equal angles.
C7_WraparoundRule ==
    BarsBuilt
        => \A i \in 1 .. Len(returned.val) :
               LET a == AngleOf(args[CalledPairs[i][1]])
                   b == AngleOf(args[CalledPairs[i][2]])
               IN  /\ returned.val[i].width = Clockwise(a, b)
                   /\ 0 <= returned.val[i].width /\ returned.val[i].width < FullCircle
                   /\ (a = b => returned.val[i].width = 0)

\* a multi-band wheel with a bar that wraps over midnight and a bar of width 0
C7_Witness ==
    /\ returned.fn = "update_plot"
    /\ \E i \in 1 .. 8 :
           /\ AngleOf(args[WheelPairs[i][2]]) < AngleOf(args[WheelPairs[i][1]])
           /\ returned.val[i].width > 0
    /\ \E i \in 1 .. 8 : returned.val[i].width = 0

\* C8: two update_plot calls for the same date and location (and so the same
\* oracle answers) yield the same segments and the same outcome, whatever
\* self.sun_info an earlier call left behind.
C8_Determinism ==
    (first_render # None /\ last_render # None
        /\ first_render[1].date = last_render[1].date
        /\ first_render[1].location = last_render[1].location)
        => /\ first_render[1].bars = last_render[1].bars
           /\ first_render[1].raised = last_render[1].raised

\* Sakamoto's day of the week: 0 is Sunday
SakamotoOffsets == << 0, 3, 2, 5, 0, 3, 5, 1, 4, 6, 2, 4 >>

DayOfWeek(y, m, d) ==
    LET yy == IF m < 3 THEN y - 1 ELSE y
    IN  (yy + (yy \div 4) - (yy \div 100) + (yy \div 400) + SakamotoOffsets[m] + d) % 7

SecondSundayOfMarch(y) == CHOOSE d \in 8 .. 14 : DayOfWeek(y, 3, d) = 0

FirstSundayOfNovember(y) == CHOOSE d \in 1 .. 7 : DayOfWeek(y, 11, d) = 0

UsDst(y, m, d) ==
    /\ (m > 3 \/ (m = 3 /\ d >= SecondSundayOfMarch(y)))
    /\ (m < 11 \/ (m = 11 /\ d < FirstSundayOfNovember(y)))

\* C9: dst_in_effect is True exactly from the second Sunday of March
\* (inclusive) to the first Sunday of November (exclusive); True on 2025-07-01
\* and 2025-03-09, False on 2025-01-01 and 2025-11-02.
C9_UsDstRule ==
    (returned.fn = "dst_in_effect")
        => /\ returned.val = UsDst(args.year, args.month, args.day)
           /\ (args = [year |-> 2025, month |-> 7, day |-> 1] => returned.val = TRUE)
           /\ (args = [year |-> 2025, month |-> 3, day |-> 9] => returned.val = TRUE)
           /\ (args = [year |-> 2025, month |-> 1, day |-> 1] => returned.val = FALSE)
           /\ (args = [year |-> 2025, month |-> 11, day |-> 2] => returned.val = FALSE)

\* the start of DST in 2025, the second Sunday of March, is inside
C9_Witness ==
    /\ returned.fn = "dst_in_effect"
    /\ args = [year |-> 2025, month |-> 3, day |-> 9]
    /\ returned.val = TRUE

\* C10 as stated: _create_plot emits night, morning twilight, daylight, evening
\* twilight, going round the cycle last_light -> first_light -> sunrise -> sunset.
C10_Original ==
    (returned.fn = "_create_plot")
        => /\ [i \in 1 .. 4 |-> returned.val[i].color]
                  = << "darkblue", "midnightblue", "gold", "midnightblue" >>
           /\ [i \in 1 .. 4 |-> returned.val[i].start] = PlotBoundaries

\* C10 as amended: _create_plot emits night (from last_light), morning twilight
\* (from first_light), evening twilight (from sunset), daylight (from sunrise),
\* in this fixed order: one segment for each consecutive pair of the cycle, the
\* daylight drawn last.
C10_EmissionOrder ==
    (returned.fn = "_create_plot")
        => /\ Len(returned.val) = 4
           /\ [i \in 1 .. 4 |-> returned.val[i].color]
                  = << "darkblue", "midnightblue", "midnightblue", "gold" >>
           /\ [i \in 1 .. 4 |-> returned.val[i].start]
                  = << AngleOf(args["civil_dusk"]), AngleOf(args["civil_dawn"]),
                       AngleOf(args["sunset"]), AngleOf(args["sunrise"]) >>
           /\ \A i \in 1 .. 4 :
                  returned.val[i].width
                      = Clockwise(AngleOf(args[PlotPairs[i][1]]), AngleOf(args[PlotPairs[i][2]]))

\* four distinct boundaries: the third bar starts at sunset, the gold bar is last
C10_Witness ==
    /\ returned.fn = "_create_plot"
    /\ StrictlyClockwise(PlotBoundaries)
    /\ returned.val[3].start = AngleOf(args["sunset"])
    /\ returned.val[3].start # returned.val[4].start
    /\ returned.val[4].color = "gold"

\* the morning and the evening (civil) twilight bar of the wheel that was built
MorningTwilightBar == returned.val[2]

EveningTwilightBar == returned.val[3]

\* the day of scenario 2 was handed to one of the two wheels
ScenarioTwilightBuilt ==
    /\ BarsBuilt
    /\ args["civil_dawn"] = Time(5, 30) /\ args["sunrise"] = Time(6, 0)
    /\ args["sunset"] = Time(20, 0) /\ args["civil_dusk"] = Time(20, 30)

\* C11 as stated: with civil dawn 05:30, sunrise 06:00, sunset 20:00 and civil
\* dusk 20:30 the morning civil-twilight width is pi/48, one 96th of the full
\* circle, and the evening civil-twilight width is the same.
C11_Original ==
    ScenarioTwilightBuilt
        => /\ 96 * MorningTwilightBar.width = FullCircle
           /\ EveningTwilightBar.width = MorningTwilightBar.width

\* C11 as amended: with civil dawn 05:30, sunrise 06:00, sunset 20:00 and civil
\* dusk 20:30 the morning civil-twilight bar of either wheel starts at
\* angle(05:30) and its width (angle(06:00) - angle(05:30)) mod 2 pi is pi/24,
\* one 48th of the full circle (30 minutes of 24 hours); the evening
\* civil-twilight bar starts at angle(20:00) and has the same width.
C11_ScenarioTwilightWidths ==
    ScenarioTwilightBuilt
        => /\ MorningTwilightBar.start = AngleOf(Time(5, 30))
           /\ 48 * MorningTwilightBar.width = FullCircle
           /\ EveningTwilightBar.start = AngleOf(Time(20, 0))
           /\ EveningTwilightBar.width = MorningTwilightBar.width

\* scenario 2 on the single-band wheel: both twilight bars span 30 minutes
C11_Witness ==
    /\ returned.fn = "_create_plot"
    /\ args["civil_dawn"] = Time(5, 30) /\ args["sunrise"] = Time(6, 0)
    /\ args["sunset"] = Time(20, 0) /\ args["civil_dusk"] = Time(20, 30)
    /\ 48 * returned.val[2].width = FullCircle
    /\ returned.val[3].width = returned.val[2].width

\* C12: with sunrise 06:00 and sunset 20:00 the daylight segment of either
\* wheel starts at angle(06:00), a quarter of the circle, and its width is
\* 7 pi / 6, that is 14/24 of the full circle.
C12_ScenarioDaylight ==
    (BarsBuilt /\ args["sunrise"] = Time(6, 0) /\ args["sunset"] = Time(20, 0))
        => /\ DaylightBar.start = AngleOf(Time(6, 0))
           /\ 4 * DaylightBar.start = FullCircle
           /\ 24 * DaylightBar.width = 14 * FullCircle

\* scenario 1 on the multi-band wheel: the gold bar from 06:00 spans 14 hours
C12_Witness ==
    /\ returned.fn = "update_plot"
    /\ args["sunrise"] = Time(6, 0) /\ args["sunset"] = Time(20, 0)
    /\ returned.val[1].color = "gold"
    /\ 4 * returned.val[1].start = FullCircle
    /\ 24 * returned.val[1].width = 14 * FullCircle

WheelCycle ==
    << "astro_dusk", "astro_dawn", "nautical_dawn", "civil_dawn",
       "sunrise", "sunset", "civil_dusk", "nautical_dusk" >>

\* the event that follows event l on the cycle
NextOnCycle(l) ==
    LET k == CHOOSE j \in 1 .. 8 : WheelCycle[j] = l
    IN  WheelCycle[(k % 8) + 1]

\* where bar i ends: (start + width) mod full circle
BarEnd(bar) == (bar.start + bar.width) % FullCircle

\* C14: for every eight boundary angles, ordered or not, each segment of
\* update_plot is anchored at the first boundary of its pair and
\* (start + width) mod 2 pi is the start of the segment of the next boundary on
\* the cycle astro_dusk -> astro_dawn -> nautical_dawn -> civil_dawn -> sunrise
\* -> sunset -> civil_dusk -> nautical_dusk -> astro_dusk; every boundary is
\* the start of exactly one segment.
C14_Contiguity ==
    (returned.fn = "update_plot")
        => /\ Len(returned.val) = 8
           /\ \A l \in EventLabels :
                  Cardinality({ i \in 1 .. 8 : WheelPairs[i][1] = l }) = 1
           /\ \A i \in 1 .. 8 :
                  LET from == WheelPairs[i][1]
                      j == CHOOSE n \in 1 .. 8 : WheelPairs[n][1] = NextOnCycle(from)
                  IN  /\ returned.val[i].start = AngleOf(args[from])
                      /\ BarEnd(returned.val[i]) = AngleOf(args[NextOnCycle(from)])
                      /\ BarEnd(returned.val[i]) = returned.val[j].start

\* an ordered day whose night bar runs over midnight: its end wraps round to
\* the astronomical dawn, where the next bar starts
C14_Witness ==
    /\ returned.fn = "update_plot"
    /\ StrictlyClockwise(WheelBoundaries)
    /\ returned.val[8].start + returned.val[8].width > FullCircle
    /\ BarEnd(returned.val[8]) = returned.val[6].start

\* C15: for every assignment of boundary angles, in any order, the widths of
\* _create_plot (4) and of update_plot (8) sum to a whole number of full
\* circles; the sum is exactly one full circle if and only if the angles are
\* not all equal and are met in the builder's cyclic order going clockwise once
\* round (equal neighbours allowed).
C15_WidthSumCongruence ==
    BarsBuilt
        => /\ Len(returned.val) = Len(CalledBoundaries)
           /\ TotalWidth(returned.val) >= 0
           /\ TotalWidth(returned.val) % FullCircle = 0
           /\ (TotalWidth(returned.val) = FullCircle)
                  <=> (~AllCoincide(CalledBoundaries) /\ WeaklyClockwise(CalledBoundaries))

\* boundaries out of order on the multi-band wheel: the widths wind round the
\* circle more than once
C15_Witness ==
    /\ returned.fn = "update_plot"
    /\ ~WeaklyClockwise(WheelBoundaries)
    /\ TotalWidth(returned.val) >= 2 * FullCircle
    /\ TotalWidth(returned.val) % FullCircle = 0

\* the zones pytz knows among the texts of the model (pytz.all_timezones)
KnownZones ==
    { "UTC", "Europe/Paris", "Europe/London", "US/Eastern", "US/Central",
      "US/Mountain", "US/Arizona", "US/Pacific" }

\* the selected location is a valid one and the attributes of the window
\* describe it
LocationValid ==
    location # None
        => LET loc == location[1]
           IN  /\ -90 * 100000 <= loc.info.latitude /\ loc.info.latitude <= 90 * 100000
               /\ -180 * 100000 <= loc.info.longitude /\ loc.info.longitude <= 180 * 100000
               /\ loc.info.timezone \in KnownZones
               /\ loc.latitude = loc.info.latitude
               /\ loc.longitude = loc.info.longitude
               /\ loc.tz_str = loc.info.timezone
               /\ loc.tz.zone = loc.info.timezone

\* a step of select_location or of its LocationDialog that ends in a warning
\* box, or that closes the dialog without OK, leaves self.location as it was
RefusedEntryKeepsLocation ==
    (dialog.state \in {"open", "accepted"} /\ (raised' # "none" \/ LocationDialogRejected))
        => location' = location

\* C16: after any sequence of select_location calls, whenever self.location is
\* set its latitude is in [-90, 90], its longitude in [-180, 180], its timezone
\* is one of pytz.all_timezones, and self.latitude, self.longitude, self.tz_str
\* and self.tz describe that same location; a rejected, invalid or cancelled
\* entry leaves the selected location unchanged.
C16_LocationValidity == [](LocationValid) /\ [][RefusedEntryKeepsLocation]_vars

\* a location was selected and a later entry with latitude 95 was turned down:
\* the window still holds the valid location
C16_Witness ==
    /\ location # None
    /\ raised = "Invalid latitude/longitude input."
    /\ last_values.last_latitude = << 9500000 >>
    /\ location[1].info.latitude = 4222530

\* OK was clicked in the LocationDialog and accept turned the entry down: the
\* dialog stays open
AcceptRejects == dialog.state = "open" /\ dialog'.state = "open"

\* C17: LocationDialog.accept updates last_latitude, last_longitude,
\* last_location_name and last_tz_str all together or not at all: when it
\* rejects the input the dialog stays open and none of the four changes.
C17_RememberedAtomicity == [][AcceptRejects => last_values' = last_values]_vars

====
